---- MODULE Spec2Model ----
(***************************************************************************)
(* The object-detection example of the repository: the mini-batch loader   *)
(* (dataset/dataloader.py) and the losses (block/loss.py).                  *)
(*                                                                         *)
(* Python values are encoded as follows.                                   *)
(*   - an optional argument is a sequence: <<>> is None, <<v>> is v;       *)
(*   - a list or tuple of indices is a sequence of integers;               *)
(*   - a record of the dataset is [t |-> type, shape, v |-> payload], see   *)
(*     the collation section.                                              *)
(***************************************************************************)
EXTENDS Integers, Sequences, FiniteSets, TLC

VARIABLES
    args,        \* the arguments DataLoader.__init__ was called with
    loader,      \* the DataLoader object (or the error its constructor raised)
    prev,        \* BatchSampler._prev, the leftover buffer of the batch sampler
    gen,         \* the generator returned by DataLoader.__iter__
    epoch,       \* what the iterations so far drew from the sampler and emitted
    call         \* the last direct call of _batchify or of a loss, with its outcome

vars == <<args, loader, prev, gen, epoch, call>>

(***************************************************************************)
(* Bounds of the model.                                                    *)
(***************************************************************************)
MaxN == 10          \* largest dataset size
MaxB == 3           \* largest batch_size
MaxShuffleN == 2    \* largest dataset size iterated with a random sampler
MaxEpochs == 3      \* iterations of one loader
MaxShuffleEpochs == 2   \* iterations of one loader with a random sampler
MaxGroup == 3       \* records in a group handed to _batchify directly
MaxRows == 5        \* rows of a label array
MaxDim == 2         \* last dimension of a label array
MaxClass == 2       \* largest num_class / number of classes tried
MaxPos == 2         \* positions of a softmax cross-entropy call

None == <<>>
Some(v) == <<v>>
IsNone(o) == o = <<>>
Val(o) == o[1]

Range(s) == {s[i] : i \in 1..Len(s)}

IsPrefix(s, t) == Len(s) <= Len(t) /\ SubSeq(t, 1, Len(s)) = s

RECURSIVE Flatten(_)
Flatten(ss) == IF ss = <<>> THEN <<>> ELSE Head(ss) \o Flatten(Tail(ss))

Perms(n) == {p \in [1..n -> 0..(n-1)] : \A i, j \in 1..n : p[i] = p[j] => i = j}

(***************************************************************************)
(* mxnet.gluon.data.sampler: SequentialSampler, RandomSampler and          *)
(* BatchSampler.  The loader imports them (dataloader.py line 4); their    *)
(* code is not among the sources, so they follow the specification's       *)
(* section 4.2.                                                            *)
(***************************************************************************)
Policies == {"keep", "discard", "rollover"}

\* Sequential sampler: the indices 0..N-1 in order.
SequentialSampler(length) == [cls |-> "SequentialSampler", length |-> length]

\* Random sampler: a permutation of 0..N-1, drawn anew at every restart.
RandomSampler(length) == [cls |-> "RandomSampler", length |-> length]

\* A sampler object the caller built: here one that yields N-1..0.
UserSampler(length) == [cls |-> "UserSampler", length |-> length]

\* The index sequences one restart of a sampler can produce.
SamplerRuns(s) ==
    CASE s.cls = "SequentialSampler" -> {[i \in 1..s.length |-> i - 1]}
      [] s.cls = "RandomSampler" -> Perms(s.length)
      [] OTHER -> {[i \in 1..s.length |-> s.length - i]}

\* BatchSampler(sampler, batch_size, last_batch): the object keeps its
\* arguments; the policy is looked at when an iteration ends on a short group.
BatchSampler(sampler, batch_size, last_batch) ==
    [cls |-> "BatchSampler", sampler |-> sampler, batch_size |-> batch_size,
     last_batch |-> last_batch, groups |-> <<>>]

\* A batch sampler the caller built: it yields the groups it was given.
UserBatchSampler(groups) ==
    [cls |-> "UserBatchSampler", sampler |-> UserSampler(0),
     batch_size |-> 0, last_batch |-> "", groups |-> groups]

\* The batch sampler's buffering loop, from a buffer `batch` and the indices
\* `rest` the sampler has still to produce: every index drawn is appended, and
\* a buffer that has reached batch_size is emitted.  The result is
\* [full |-> a group was completed, batch |-> the group or what is buffered,
\*  rest |-> the indices not yet drawn].
RECURSIVE Fill(_, _, _)
Fill(batch, rest, batch_size) ==
    IF rest = <<>>
    THEN [full |-> FALSE, batch |-> batch, rest |-> rest]
    ELSE IF Len(batch) + 1 = batch_size
         THEN [full |-> TRUE, batch |-> Append(batch, Head(rest)), rest |-> Tail(rest)]
         ELSE Fill(Append(batch, Head(rest)), Tail(rest), batch_size)

\* What the batch sampler does with a short final group `batch` (non-empty):
\* [yield |-> the group it emits, if any, prev |-> the new leftover buffer,
\*  raised |-> the error it raises].  The policy selects between keeping the
\* group, dropping it and carrying it over; a policy that is none of the three
\* is rejected here, where it is first looked at.
LastBatch(batch, last_batch) ==
    CASE last_batch = "keep" -> [yield |-> Some(batch), prev |-> <<>>, raised |-> ""]
      [] last_batch = "discard" -> [yield |-> None, prev |-> <<>>, raised |-> ""]
      [] last_batch = "rollover" -> [yield |-> None, prev |-> batch, raised |-> ""]
      [] OTHER -> [yield |-> None, prev |-> <<>>, raised |-> "ValueError"]

(***************************************************************************)
(* Collation: _batchify (dataloader.py lines 8-25).                         *)
(*                                                                         *)
(* A value is [t |-> type, shape |-> its shape, v |-> payload]:            *)
(*   t = "NDArray"  a tensor of the framework, v its nested rows;          *)
(*   t = "ndarray"  a plain numeric (numpy) array of shape <<L, D>>,       *)
(*                   v its L rows of D numbers;                            *)
(*   t = "tuple"    a tuple, v the sequence of its fields;                 *)
(*   t = "list"     a list, v the sequence of its items.                   *)
(***************************************************************************)
PadValue == -1

Max(S) == CHOOSE m \in S : \A x \in S : x <= m
Min(S) == CHOOSE m \in S : \A x \in S : m <= x

\* nd.stack(*data): the tensors along a new leading axis.
Stack(data) ==
    [t |-> "NDArray", shape |-> <<Len(data)>> \o data[1].shape,
     v |-> [i \in 1..Len(data) |-> data[i].v]]

\* zip(*data): the j-th fields of all the records, for every j all records have.
Zip(data) ==
    [j \in 1..Min({Len(data[i].v) : i \in 1..Len(data)}) |->
        [i \in 1..Len(data) |-> data[i].v[j]]]

\* The padding branch with a buffer filled with 0.
PadAndStackZeroFill(data) ==
    LET batch_size == Len(data)
        pad == Max({data[i].shape[1] : i \in 1..batch_size})
        dim == data[1].shape[2]
    IN  [t |-> "NDArray", shape |-> <<batch_size, pad, dim>>,
         v |-> [i \in 1..batch_size |->
                  [r \in 1..pad |->
                     IF r <= data[i].shape[1]
                     THEN data[i].v[r]
                     ELSE [c \in 1..dim |-> 0]]]]

\* Lines 16-25: the plain arrays copied into a buffer of
\* (len(data), max row count, last dimension of the first) filled with -1.
PadAndStack(data) ==
    LET batch_size == Len(data)
        pad == Max({data[i].shape[1] : i \in 1..batch_size})
        dim == data[1].shape[2]
    IN  [t |-> "NDArray", shape |-> <<batch_size, pad, dim>>,
         v |-> [i \in 1..batch_size |->
                  [r \in 1..pad |->
                     IF r <= data[i].shape[1]
                     THEN data[i].v[r]
                     ELSE [c \in 1..dim |-> PadValue]]]]

\* _batchify with a tuple branch that keeps one entry per record instead of
\* one per field.
RECURSIVE _batchifyPerRecord(_)
_batchifyPerRecord(data) ==
    IF data[1].t = "NDArray" THEN Stack(data)
    ELSE IF data[1].t = "tuple"
         THEN [t |-> "list", shape |-> <<>>,
               v |-> [i \in 1..Len(data) |-> data[i]]]
         ELSE PadAndStack(data)

RECURSIVE _batchify(_)
_batchify(data) ==
    IF data[1].t = "NDArray" THEN Stack(data)
    ELSE IF data[1].t = "tuple"
         THEN [t |-> "list", shape |-> <<>>,
               v |-> [j \in 1..Len(Zip(data)) |-> _batchify(Zip(data)[j])]]
         ELSE PadAndStack(data)

\* len(x) of a collated result.
PyLen(x) == IF x.t \in {"list", "tuple"} THEN Len(x.v) ELSE x.shape[1]

(***************************************************************************)
(* The records of the model's datasets.  A record is identified by `id`;   *)
(* the cells of its arrays are distinct numbers >= 0 that name the record, *)
(* the row and the column, so that a cell of a batch tells where it came   *)
(* from.                                                                   *)
(***************************************************************************)
Kinds == {"nd", "np", "nd_np", "nested"}

Cell(id, r, c) == 100 * id + 10 * r + c

Tensor(id) == [t |-> "NDArray", shape |-> <<1>>, v |-> <<1000 + id>>]

Labels(id, rows, dim) ==
    [t |-> "ndarray", shape |-> <<rows, dim>>,
     v |-> [r \in 1..rows |-> [c \in 1..dim |-> Cell(id, r, c)]]]

Tuple(fields) == [t |-> "tuple", shape |-> <<>>, v |-> fields]

Record(kind, id, rows, dim) ==
    CASE kind = "nd" -> Tensor(id)
      [] kind = "np" -> Labels(id, rows, dim)
      [] kind = "nd_np" -> Tuple(<<Tensor(id), Labels(id, rows, dim)>>)
      [] OTHER -> Tuple(<<Tuple(<<Tensor(id), Tensor(id + 50)>>),
                          Labels(id, rows, dim)>>)

\* Dataset: record idx of a dataset of the given kind (dataset[idx]).
RowsOf(idx) == (2 * idx + 1) % (MaxRows + 1)

GetItem(dataset, idx) == Record(dataset.kind, idx, RowsOf(idx), dataset.dim)

(***************************************************************************)
(* block/loss.py.  The module's top-level statements run in order when it  *)
(* is imported; a class statement evaluates its base classes, so a name    *)
(* used there must already be bound.                                       *)
(***************************************************************************)
Stmt(line, binds, needs) == [line |-> line, binds |-> binds, needs |-> needs]

\* The statements of the module had line 5 imported `Loss` beside `loss`:
\* the losses' properties are checked against this variant to tell the
\* classes' own code from the failing import.
LossModuleLossImported ==
    <<Stmt(5, {"loss", "Loss"}, {}),
      Stmt(6, {"_reshape_like", "_apply_weighting"}, {}),
      Stmt(7, {"np"}, {}),
      Stmt(9, {"find_inf"}, {}),
      Stmt(14, {"SmoothL1Loss"}, {"loss"}),
      Stmt(29, {"SigmoidBinaryCrossEntropyLoss"}, {"Loss"}),
      Stmt(92, {"SigmoidBCELoss"}, {"SigmoidBinaryCrossEntropyLoss"}),
      Stmt(95, {"SoftmaxCrossEntropyLoss"}, {"Loss"}),
      Stmt(180, {"FocalLoss"}, {"loss"})>>

\* The statements of the module: the names each binds and the names each
\* needs bound when it runs.
LossModule ==
    <<Stmt(5, {"loss"}, {}),                               \* from mxnet.gluon import loss
      Stmt(6, {"_reshape_like", "_apply_weighting"}, {}),  \* from mxnet.gluon.loss import ...
      Stmt(7, {"np"}, {}),                                 \* import numpy as np
      Stmt(9, {"find_inf"}, {}),                           \* def find_inf
      Stmt(14, {"SmoothL1Loss"}, {"loss"}),                \* class ...(loss.Loss)
      Stmt(29, {"SigmoidBinaryCrossEntropyLoss"}, {"Loss"}),   \* class ...(Loss)
      Stmt(92, {"SigmoidBCELoss"}, {"SigmoidBinaryCrossEntropyLoss"}),
      Stmt(95, {"SoftmaxCrossEntropyLoss"}, {"Loss"}),     \* class ...(Loss)
      Stmt(180, {"FocalLoss"}, {"loss"})>>                 \* class ...(loss.Loss)

\* Running statements in a namespace: the names bound at the end, or the
\* NameError of the first statement that needs a name not bound.
RECURSIVE Exec(_, _)
Exec(stmts, names) ==
    IF stmts = <<>>
    THEN [raised |-> "", line |-> 0, names |-> names]
    ELSE IF ~(Head(stmts).needs \subseteq names)
         THEN [raised |-> "NameError", line |-> Head(stmts).line, names |-> names]
         ELSE Exec(Tail(stmts), names \cup Head(stmts).binds)

\* `from block.loss import name`.
ImportFrom(name) ==
    LET m == Exec(LossModule, {})
    IN  IF m.raised # "" THEN m.raised
        ELSE IF name \notin m.names THEN "ImportError" ELSE ""

\* A Python value handed as num_class: its type and, for a number, its value.
PyValue(type, v) == [type |-> type, v |-> v]

\* isinstance(x, int): bool is a subclass of int.
IsInstanceInt(x) == x.type \in {"int", "bool"}

\* FocalLoss.__init__, lines 188-200.
FocalLoss__init__(sparse_label, num_class) ==
    IF sparse_label /\ (~IsInstanceInt(num_class) \/ num_class.v < 1)
    THEN [raised |-> "ValueError", obj |-> None]
    ELSE [raised |-> "",
          obj |-> Some([_sparse_label |-> sparse_label, _num_class |-> num_class])]

(***************************************************************************)
(* SoftmaxCrossEntropyLoss.hybrid_forward, lines 166-177, with pred of     *)
(* shape (positions, classes), the class axis last and the batch axis      *)
(* first.  A number of the computation is a term [k, n, of]:               *)
(*   Num(n)            the number n;                                       *)
(*   LogSoftmax(x, c)  entry c (from 0) of log_softmax of the row x;       *)
(*   Neg(t)            -t;                                                 *)
(*   Mul(t, w)         t * w, which is 0 when t is 0 (w is finite).        *)
(***************************************************************************)
Num(n) == [k |-> "num", n |-> n, of |-> <<>>]
LogSoftmax(x, c) == [k |-> "log_softmax", n |-> c, of |-> x]
Neg(t) == IF t.k = "num" THEN Num(-t.n) ELSE [k |-> "neg", n |-> 0, of |-> <<t>>]
Mul(t, w) ==
    IF t.k = "num" THEN Num(t.n * w) ELSE [k |-> "mul", n |-> w, of |-> <<t>>]

\* F.pick(pred, label, axis): the entry at the label's index, an index out
\* of range being clipped into it (the operator's default mode).
Clip(i, lo, hi) == IF i < lo THEN lo ELSE IF i > hi THEN hi ELSE i
Pick(row, label) == row[Clip(label, 0, Len(row) - 1) + 1]

\* _apply_weighting(F, loss, weight, sample_weight).
ApplyWeighting(t, weight, sample_weight) ==
    LET u == IF IsNone(sample_weight) THEN t ELSE Mul(t, Val(sample_weight))
    IN  IF IsNone(weight) THEN u ELSE Mul(u, Val(weight))

\* The loss of the positions 1..Len(label): pred[p] the row of position p,
\* label[p] its sparse label, sample_weight an optional weight per position.
hybrid_forward(self, pred, label, sample_weight) ==
    [p \in 1..Len(label) |->
        LET logp == IF self._from_logits
                    THEN [c \in 1..Len(pred[p]) |-> Num(pred[p][c])]
                    ELSE [c \in 1..Len(pred[p]) |-> LogSoftmax(pred[p], c - 1)]
            picked == Neg(Pick(logp, label[p]))
            loss == IF label[p] = self._ignore_label THEN Num(0) ELSE picked
        IN  ApplyWeighting(loss, self._weight,
                           IF IsNone(sample_weight) THEN None
                           ELSE Some(Val(sample_weight)[p]))]


(***************************************************************************)
(* DataLoader (dataloader.py lines 28-83).                                 *)
(***************************************************************************)
Raise(error) == [status |-> error, _dataset |-> None, _batch_sampler |-> None]

\* Truth value of last_batch in `last_batch if last_batch else 'keep'`:
\* None and the empty string are false.
Truthy(o) == ~IsNone(o) /\ Val(o) # ""

\* __init__ with last_batch missing from the test of line 71-72.
DataLoader__init__ForgetsLastBatch(dataset, batch_size, shuffle, sampler, last_batch, batch_sampler) ==
    IF IsNone(batch_sampler)
    THEN IF IsNone(batch_size)
         THEN Raise("ValueError")
         ELSE IF ~IsNone(sampler) /\ shuffle
              THEN Raise("ValueError")
              ELSE [status |-> "ok", _dataset |-> Some(dataset),
                    _batch_sampler |-> Some(BatchSampler(
                        IF IsNone(sampler)
                        THEN IF shuffle THEN RandomSampler(dataset.length)
                                        ELSE SequentialSampler(dataset.length)
                        ELSE Val(sampler),
                        Val(batch_size),
                        IF Truthy(last_batch) THEN Val(last_batch)
                                                    ELSE "keep"))]
    ELSE IF ~IsNone(batch_size) \/ shuffle \/ ~IsNone(sampler)
         THEN Raise("ValueError")
         ELSE [status |-> "ok", _dataset |-> Some(dataset),
               _batch_sampler |-> batch_sampler]

\* __init__ without the test of line 66.
DataLoader__init__ShuffleIgnored(dataset, batch_size, shuffle, sampler, last_batch, batch_sampler) ==
    IF IsNone(batch_sampler)
    THEN IF IsNone(batch_size)
         THEN Raise("ValueError")
         ELSE IF FALSE
              THEN Raise("ValueError")
              ELSE [status |-> "ok", _dataset |-> Some(dataset),
                    _batch_sampler |-> Some(BatchSampler(
                        IF IsNone(sampler)
                        THEN IF shuffle THEN RandomSampler(dataset.length)
                                        ELSE SequentialSampler(dataset.length)
                        ELSE Val(sampler),
                        Val(batch_size),
                        IF Truthy(last_batch) THEN Val(last_batch)
                                                    ELSE "keep"))]
    ELSE IF ~IsNone(batch_size) \/ shuffle \/ ~IsNone(sampler) \/ ~IsNone(last_batch)
         THEN Raise("ValueError")
         ELSE [status |-> "ok", _dataset |-> Some(dataset),
               _batch_sampler |-> batch_sampler]

\* __init__ passing 'keep' to the batch sampler whatever last_batch is.
DataLoader__init__AlwaysKeep(dataset, batch_size, shuffle, sampler, last_batch, batch_sampler) ==
    IF IsNone(batch_sampler)
    THEN IF IsNone(batch_size)
         THEN Raise("ValueError")
         ELSE IF ~IsNone(sampler) /\ shuffle
              THEN Raise("ValueError")
              ELSE [status |-> "ok", _dataset |-> Some(dataset),
                    _batch_sampler |-> Some(BatchSampler(
                        IF IsNone(sampler)
                        THEN IF shuffle THEN RandomSampler(dataset.length)
                                        ELSE SequentialSampler(dataset.length)
                        ELSE Val(sampler),
                        Val(batch_size),
                        "keep"))]
    ELSE IF ~IsNone(batch_size) \/ shuffle \/ ~IsNone(sampler) \/ ~IsNone(last_batch)
         THEN Raise("ValueError")
         ELSE [status |-> "ok", _dataset |-> Some(dataset),
               _batch_sampler |-> batch_sampler]

\* __init__ with a sequential sampler over len(dataset) - 1.
DataLoader__init__OffByOne(dataset, batch_size, shuffle, sampler, last_batch, batch_sampler) ==
    IF IsNone(batch_sampler)
    THEN IF IsNone(batch_size)
         THEN Raise("ValueError")
         ELSE IF ~IsNone(sampler) /\ shuffle
              THEN Raise("ValueError")
              ELSE [status |-> "ok", _dataset |-> Some(dataset),
                    _batch_sampler |-> Some(BatchSampler(
                        IF IsNone(sampler)
                        THEN IF shuffle THEN RandomSampler(dataset.length)
                                        ELSE SequentialSampler(Max({dataset.length - 1, 0}))
                        ELSE Val(sampler),
                        Val(batch_size),
                        IF Truthy(last_batch) THEN Val(last_batch)
                                                    ELSE "keep"))]
    ELSE IF ~IsNone(batch_size) \/ shuffle \/ ~IsNone(sampler) \/ ~IsNone(last_batch)
         THEN Raise("ValueError")
         ELSE [status |-> "ok", _dataset |-> Some(dataset),
               _batch_sampler |-> batch_sampler]

\* __init__, lines 53-76.
DataLoader__init__(dataset, batch_size, shuffle, sampler, last_batch, batch_sampler) ==
    IF IsNone(batch_sampler)
    THEN IF IsNone(batch_size)
         THEN Raise("ValueError")     \* line 59
         ELSE IF ~IsNone(sampler) /\ shuffle
              THEN Raise("ValueError")     \* line 67
              ELSE [status |-> "ok", _dataset |-> Some(dataset),
                    _batch_sampler |-> Some(BatchSampler(
                        IF IsNone(sampler)
                        THEN IF shuffle THEN RandomSampler(dataset.length)
                                        ELSE SequentialSampler(dataset.length)
                        ELSE Val(sampler),
                        Val(batch_size),
                        IF Truthy(last_batch) THEN Val(last_batch)
                                                    ELSE "keep"))]
    ELSE IF ~IsNone(batch_size) \/ shuffle \/ ~IsNone(sampler) \/ ~IsNone(last_batch)
         THEN Raise("ValueError")     \* line 73
         ELSE [status |-> "ok", _dataset |-> Some(dataset),
               _batch_sampler |-> batch_sampler]

\* Line 80: the records of a group of indices, collated.
Collate(dataset, group) ==
    _batchify([i \in 1..Len(group) |-> GetItem(dataset, group[i])])

\* One resumption of the batch sampler's iteration, from the buffer `batch`
\* and the indices `rest` still to be drawn:
\* [yield |-> the group emitted, if any, rest, prev |-> the leftover buffer
\*  it stores, if it stores one, raised].
BatchSamplerStep(bs, batch, rest) ==
    LET f == Fill(batch, rest, bs.batch_size)
    IN  IF f.full
        THEN [yield |-> Some(f.batch), rest |-> f.rest, prev |-> None, raised |-> ""]
        ELSE IF f.batch = <<>>
             THEN [yield |-> None, rest |-> <<>>, prev |-> None, raised |-> ""]
             ELSE LET lb == LastBatch(f.batch, bs.last_batch)
                  IN  [yield |-> lb.yield, rest |-> <<>>,
                       prev |-> Some(lb.prev), raised |-> lb.raised]

\* The groups of the batch sampler object a caller builds in the model: the
\* indices N-1..0 in pairs, the last one alone when N is odd.
UserGroups(n) ==
    [g \in 1..((n + 1) \div 2) |->
        IF 2 * g <= n THEN <<n - 2 * g + 1, n - 2 * g>> ELSE <<0>>]

LastBatchArgs ==
    {None, Some(""), Some("keep"), Some("discard"), Some("rollover"), Some("bogus")}

NoGen == [pc |-> "none", rest |-> <<>>, todo |-> <<>>, group |-> None, out |-> None]

NoEpoch ==
    [n |-> 0, run |-> <<>>, drawn |-> <<>>, carried |-> <<>>,
     emitted |-> <<>>, all |-> <<>>]

Init ==
    /\ args = <<>>
    /\ loader = [status |-> "none", _dataset |-> None, _batch_sampler |-> None]
    /\ prev = <<>>
    /\ gen = NoGen
    /\ epoch = NoEpoch
    /\ call = [fn |-> ""]

\* DataLoader(dataset, batch_size, shuffle, sampler, last_batch, batch_sampler)
Construct ==
    /\ loader.status = "none"
    /\ call.fn = ""
    /\ \E kind \in Kinds, n \in 0..MaxN, shuffle \in BOOLEAN,
          batch_size \in {None} \cup {Some(b) : b \in 1..MaxB},
          last_batch \in LastBatchArgs :
         \E sampler \in {None, Some(UserSampler(n))},
            batch_sampler \in {None, Some(UserBatchSampler(UserGroups(n)))} :
           LET dataset == [kind |-> kind, dim |-> MaxDim, length |-> n]
           IN  /\ shuffle => n <= MaxShuffleN
               /\ args' = [dataset |-> dataset, batch_size |-> batch_size,
                           shuffle |-> shuffle, sampler |-> sampler,
                           last_batch |-> last_batch,
                           batch_sampler |-> batch_sampler]
               /\ loader' = DataLoader__init__(dataset, batch_size, shuffle,
                                               sampler, last_batch, batch_sampler)
    /\ UNCHANGED <<prev, gen, epoch, call>>

\* iter(loader): __iter__ (lines 78-80) is a generator function, so the call
\* only creates the generator; its body runs at the first next().
Iter ==
    /\ loader.status = "ok"
    /\ gen.pc \in {"none", "done"}
    /\ epoch.n < IF Val(loader._batch_sampler).sampler.cls = "RandomSampler"
                 THEN MaxShuffleEpochs ELSE MaxEpochs
    /\ gen' = [NoGen EXCEPT !.pc = "created"]
    /\ UNCHANGED <<args, loader, prev, epoch, call>>

\* The generator yields the collated records of `group`.
Yield(group, rest, todo) ==
    gen' = [pc |-> "suspended", rest |-> rest, todo |-> todo,
            group |-> Some(group),
            out |-> Some(Collate(Val(loader._dataset), group))]

\* next() on the generator, when the loader holds a BatchSampler: the batch
\* sampler runs from where it stopped up to its next group, an error, or its end.
NextOfBatchSampler ==
    LET bs == Val(loader._batch_sampler)
    IN  /\ gen.pc \in {"created", "suspended"}
        /\ bs.cls = "BatchSampler"
        /\ \E run \in IF gen.pc = "created" THEN SamplerRuns(bs.sampler) ELSE {gen.rest} :
             LET first == gen.pc = "created"
                 st == BatchSamplerStep(bs, IF first THEN prev ELSE <<>>, run)
                 ep == IF first
                       THEN [n |-> epoch.n + 1, run |-> run,
                             drawn |-> epoch.drawn \o run, carried |-> prev,
                             emitted |-> <<>>, all |-> epoch.all]
                       ELSE epoch
             IN  /\ prev' = IF ~IsNone(st.prev) THEN Val(st.prev)
                            ELSE IF first THEN <<>> ELSE prev
                 /\ IF st.raised # ""
                    THEN /\ gen' = [gen EXCEPT !.pc = st.raised, !.rest = <<>>,
                                               !.group = None, !.out = None]
                         /\ epoch' = ep
                    ELSE IF IsNone(st.yield)
                         THEN /\ gen' = [gen EXCEPT !.pc = "done", !.rest = <<>>,
                                                    !.group = None, !.out = None]
                              /\ epoch' = ep
                         ELSE /\ Yield(Val(st.yield), st.rest, <<>>)
                              /\ epoch' = [ep EXCEPT
                                     !.emitted = Append(@, Val(st.yield)),
                                     !.all = @ \o Val(st.yield)]
        /\ UNCHANGED <<args, loader, call>>

\* next() on the generator, when the loader holds the caller's batch sampler.
NextOfUserBatchSampler ==
    LET bs == Val(loader._batch_sampler)
    IN  /\ gen.pc \in {"created", "suspended"}
        /\ bs.cls = "UserBatchSampler"
        /\ LET first == gen.pc = "created"
               todo == IF first THEN bs.groups ELSE gen.todo
               ep == IF first
                     THEN [n |-> epoch.n + 1, run |-> Flatten(bs.groups),
                           drawn |-> epoch.drawn \o Flatten(bs.groups),
                           carried |-> <<>>, emitted |-> <<>>, all |-> epoch.all]
                     ELSE epoch
           IN  IF todo = <<>>
               THEN /\ gen' = [gen EXCEPT !.pc = "done", !.todo = <<>>,
                                          !.group = None, !.out = None]
                    /\ epoch' = ep
               ELSE /\ Yield(Head(todo), <<>>, Tail(todo))
                    /\ epoch' = [ep EXCEPT !.emitted = Append(@, Head(todo)),
                                           !.all = @ \o Head(todo)]
        /\ UNCHANGED <<args, loader, prev, call>>

\* A direct call _batchify(data) on a non-empty group of same-shaped records.
CallBatchify ==
    /\ loader.status = "none"
    /\ call.fn = ""
    /\ \E kind \in Kinds, k \in 1..MaxGroup, dim \in 1..MaxDim :
         \E rows \in [1..k -> 0..MaxRows] :
           LET data == [i \in 1..k |-> Record(kind, i, rows[i], dim)]
           IN  call' = [fn |-> "_batchify", kind |-> kind, rows |-> rows,
                        data |-> data, out |-> _batchify(data)]
    /\ UNCHANGED <<args, loader, prev, gen, epoch>>

NumClassArgs ==
    {PyValue("NoneType", 0), PyValue("float", 2), PyValue("str", 0),
     PyValue("bool", 0), PyValue("bool", 1)}
        \cup {PyValue("int", n) : n \in (-1)..MaxClass}

\* `from block.loss import FocalLoss`, then FocalLoss(sparse_label=...,
\* num_class=...).
NewFocalLoss ==
    /\ loader.status = "none"
    /\ call.fn = ""
    /\ \E sparse_label \in BOOLEAN, num_class \in NumClassArgs :
         LET imp == ImportFrom("FocalLoss")
             res == IF imp # "" THEN [raised |-> imp, obj |-> None]
                    ELSE FocalLoss__init__(sparse_label, num_class)
         IN  call' = [fn |-> "FocalLoss", sparse_label |-> sparse_label,
                      num_class |-> num_class,
                      raised |-> res.raised, obj |-> res.obj]
    /\ UNCHANGED <<args, loader, prev, gen, epoch>>

\* The predictions of the model's calls: numbers that name the variant, the
\* position and the class.
Pred(variant, positions, classes) ==
    [p \in 1..positions |-> [c \in 1..classes |-> -(variant * 100 + 10 * p + c)]]

\* `from block.loss import SoftmaxCrossEntropyLoss`, then
\* SoftmaxCrossEntropyLoss(from_logits=..., weight=..., ignore_label=...)
\* called on (pred, label, sample_weight) with sparse labels.
CallSoftmaxCrossEntropyLoss ==
    /\ loader.status = "none"
    /\ call.fn = ""
    /\ \E positions \in 1..MaxPos, classes \in 1..MaxClass, variant \in 1..2,
          from_logits \in BOOLEAN, ignore_label \in {-1, 0},
          weight \in {None, Some(3)}, weighted \in BOOLEAN :
         \E label \in [1..positions -> (-1)..(classes - 1)] :
           LET imp == ImportFrom("SoftmaxCrossEntropyLoss")
               self == [_from_logits |-> from_logits, _weight |-> weight,
                        _ignore_label |-> ignore_label]
               pred == Pred(variant, positions, classes)
               sample_weight == IF weighted
                                THEN Some([p \in 1..positions |-> p + 1])
                                ELSE None
           IN  call' = [fn |-> "SoftmaxCrossEntropyLoss", self |-> self,
                        pred |-> pred, label |-> label,
                        sample_weight |-> sample_weight,
                        raised |-> imp,
                        out |-> IF imp # "" THEN <<>>
                                ELSE hybrid_forward(self, pred, label, sample_weight)]
    /\ UNCHANGED <<args, loader, prev, gen, epoch>>

Next ==
    \/ NewFocalLoss
    \/ CallSoftmaxCrossEntropyLoss
    \/ Construct
    \/ Iter
    \/ NextOfBatchSampler
    \/ NextOfUserBatchSampler
    \/ CallBatchify

Spec == Init /\ [][Next]_vars

(***************************************************************************)
(* Properties of the loader.                                               *)
(***************************************************************************)
Built == loader.status = "ok"
Constructed == loader.status # "none"
NoBatchSampler == Constructed /\ IsNone(args.batch_sampler)
N == args.dataset.length
B == Val(args.batch_size)
EpochDone == gen.pc = "done"

\* Built with batch_size and the given last_batch, nothing else: the
\* sampler is the sequential one.
Sequential(policy) ==
    /\ Built /\ NoBatchSampler
    /\ ~args.shuffle /\ IsNone(args.sampler)
    /\ args.last_batch = Some(policy)

\* 0..n-1 cut into groups of b, the last one shorter when b does not divide n.
Cut(n, b) ==
    [g \in 1..((n + b - 1) \div b) |->
        [i \in 1..(IF g * b <= n THEN b ELSE n % b) |-> (g - 1) * b + i - 1]]

\* C1: with last_batch='keep' over the sequential sampler, one iteration
\* yields 0..N-1 in order in groups of exactly B, then one group of N mod B
\* indices when N mod B > 0; no index is dropped or repeated.
C1_KeepGroups ==
    Sequential("keep") =>
        /\ IsPrefix(epoch.emitted, Cut(N, B))
        /\ EpochDone =>
             /\ epoch.emitted = Cut(N, B)
             /\ Flatten(epoch.emitted) = [i \in 1..N |-> i - 1]
             /\ \A g \in 1..Len(epoch.emitted) :
                  Len(epoch.emitted[g]) = IF g <= N \div B THEN B ELSE N % B

C1_Witness ==
    /\ Sequential("keep") /\ EpochDone
    /\ N = 10 /\ B = 3
    /\ Len(epoch.emitted) = 4 /\ epoch.emitted[4] = <<9>>

\* C2: with last_batch='discard', one iteration yields exactly floor(N/B)
\* groups, each of exactly B indices, and the last N mod B indices of the
\* sampler's sequence are in no group.
C2_DiscardGroups ==
    (Built /\ NoBatchSampler /\ args.last_batch = Some("discard")) =>
        /\ \A g \in 1..Len(epoch.emitted) : Len(epoch.emitted[g]) = B
        /\ EpochDone =>
             /\ Len(epoch.emitted) = N \div B
             /\ Flatten(epoch.emitted) = SubSeq(epoch.run, 1, B * (N \div B))
             /\ \A i \in (B * (N \div B) + 1)..N :
                  epoch.run[i] \notin Range(Flatten(epoch.emitted))
             /\ prev = <<>>

C2_Witness ==
    /\ Built /\ NoBatchSampler /\ args.last_batch = Some("discard")
    /\ EpochDone /\ N = 10 /\ B = 3
    /\ Len(epoch.emitted) = 3

\* C3: with last_batch='rollover', over consecutive iterations of one loader,
\* every group has exactly batch_size indices; what is left at the end of an
\* iteration is not emitted in it and starts the next iteration's first group;
\* all that was emitted is a prefix of the concatenation of the sampler's
\* per-iteration sequences; and the loader itself is as it was constructed,
\* the leftover buffer being all an iteration changes.
C3_Rollover ==
    (Built /\ NoBatchSampler /\ args.last_batch = Some("rollover")) =>
        /\ \A g \in 1..Len(epoch.emitted) : Len(epoch.emitted[g]) = B
        /\ IsPrefix(epoch.all, epoch.drawn)
        /\ epoch.emitted # <<>> => IsPrefix(epoch.carried, epoch.emitted[1])
        /\ EpochDone =>
             /\ epoch.drawn = epoch.all \o prev
             /\ Len(prev) < B
        /\ loader = DataLoader__init__(args.dataset, args.batch_size, args.shuffle,
                                       args.sampler, args.last_batch,
                                       args.batch_sampler)

C3_Witness ==
    /\ Built /\ NoBatchSampler /\ args.last_batch = Some("rollover")
    /\ N = 10 /\ B = 3
    /\ epoch.n = 3 /\ EpochDone
    /\ epoch.carried = <<8, 9>> /\ epoch.emitted[1] = <<8, 9, 0>>
    /\ prev = <<>>

OthersGiven ==
    \/ ~IsNone(args.batch_size)
    \/ args.shuffle
    \/ ~IsNone(args.sampler)
    \/ ~IsNone(args.last_batch)

\* C4: a batch_sampler together with any of batch_size, shuffle (true),
\* sampler or last_batch is a configuration error and no loader is produced;
\* a batch_sampler alone succeeds and the loader iterates it unchanged.
C4_BatchSamplerAlone ==
    (Constructed /\ ~IsNone(args.batch_sampler)) =>
        /\ OthersGiven =>
             /\ loader.status = "ValueError"
             /\ IsNone(loader._batch_sampler)
             /\ gen = NoGen
        /\ ~OthersGiven =>
             /\ Built
             /\ loader._batch_sampler = args.batch_sampler
             /\ IsPrefix(epoch.emitted, Val(args.batch_sampler).groups)
             /\ EpochDone => epoch.emitted = Val(args.batch_sampler).groups

C4_Witness ==
    /\ Built /\ ~IsNone(args.batch_sampler)
    /\ EpochDone /\ N = 5
    /\ epoch.emitted = <<<<4, 3>>, <<2, 1>>, <<0>>>>

C4_WitnessError ==
    /\ Constructed /\ ~IsNone(args.batch_sampler)
    /\ args.last_batch = Some("") /\ IsNone(args.batch_size)
    /\ ~args.shuffle /\ IsNone(args.sampler)
    /\ loader.status = "ValueError"

\* C5: without a batch_sampler, batch_size missing is a configuration error;
\* shuffle=True beside an explicit sampler is a configuration error; with
\* shuffle false the explicit sampler is the one the batch sampler wraps; and
\* with no sampler shuffle selects the random sampler, its absence the
\* sequential one, over len(dataset).
C5_SamplerChoice ==
    NoBatchSampler =>
        /\ IsNone(args.batch_size) => loader.status = "ValueError"
        /\ (~IsNone(args.batch_size) /\ args.shuffle /\ ~IsNone(args.sampler))
              => loader.status = "ValueError"
        /\ (~IsNone(args.batch_size) /\ ~(args.shuffle /\ ~IsNone(args.sampler))) =>
             /\ Built
             /\ Val(loader._batch_sampler).cls = "BatchSampler"
             /\ Val(loader._batch_sampler).batch_size = B
             /\ Val(loader._batch_sampler).sampler =
                   IF ~IsNone(args.sampler) THEN Val(args.sampler)
                   ELSE IF args.shuffle THEN RandomSampler(N)
                   ELSE SequentialSampler(N)

C5_Witness ==
    /\ NoBatchSampler /\ Built
    /\ ~IsNone(args.sampler) /\ ~args.shuffle
    /\ Val(loader._batch_sampler).sampler = UserSampler(4)
    /\ EpochDone /\ epoch.run = <<3, 2, 1, 0>>

C5_WitnessError ==
    /\ NoBatchSampler /\ ~IsNone(args.batch_size)
    /\ args.shuffle /\ ~IsNone(args.sampler)
    /\ loader.status = "ValueError"

YieldedData ==
    [i \in 1..Len(Val(gen.group)) |-> GetItem(Val(loader._dataset), Val(gen.group)[i])]

Yielded == gen.pc = "suspended"
Called == call.fn = "_batchify"

\* C7 as stated: the length of the collated result equals the number of
\* records of the group, whether the records are tensors, tuples or plain
\* arrays.
C7_LengthIsGroupSize ==
    /\ Called => PyLen(call.out) = Len(call.data)
    /\ Yielded => PyLen(Val(gen.out)) = Len(YieldedData)

\* The result for records shaped like `rec`, in a group of k: tensors and
\* plain arrays give a tensor of leading dimension k; tuples give a list with
\* one entry per field, each the result for that field.
RECURSIVE BatchOf(_, _, _)
BatchOf(out, rec, k) ==
    IF rec.t = "tuple"
    THEN /\ out.t = "list"
         /\ Len(out.v) = Len(rec.v)
         /\ \A j \in 1..Len(rec.v) : BatchOf(out.v[j], rec.v[j], k)
    ELSE /\ out.t = "NDArray"
         /\ PyLen(out) = k
         /\ Len(out.v) = k

\* C7, amended: the collated result of a group of k tensors or of k plain
\* arrays has length k; that of k tuples is a list with one entry per field
\* of the tuple, each entry the collation of that field over the group and
\* so, through nested tuples, of length k.
C7_LengthPerField ==
    /\ Called => BatchOf(call.out, call.data[1], Len(call.data))
    /\ Yielded => BatchOf(Val(gen.out), YieldedData[1], Len(YieldedData))

C7_Witness ==
    /\ Called /\ call.kind = "nested" /\ Len(call.data) = 3
    /\ call.rows = <<2, 5, 3>>
    /\ PyLen(call.out) = 2
    /\ PyLen(call.out.v[1]) = 2
    /\ PyLen(call.out.v[1].v[2]) = 3
    /\ PyLen(call.out.v[2]) = 3

\* The batch of k plain arrays: shape (k, max rows, last dimension); record i
\* fills rows 1..L_i of entry i in order, and every later row holds -1.
Padded(out, data) ==
    LET k == Len(data)
        L(i) == data[i].shape[1]
        top == Max({L(i) : i \in 1..k})
        dim == data[1].shape[2]
    IN  /\ out.shape = <<k, top, dim>>
        /\ Len(out.v) = k
        /\ \A i \in 1..k :
             /\ Len(out.v[i]) = top
             /\ \A r \in 1..top :
                  /\ Len(out.v[i][r]) = dim
                  /\ r <= L(i) => out.v[i][r] = data[i].v[r]
                  /\ r > L(i) => \A c \in 1..dim : out.v[i][r][c] = -1

\* C8: k plain label arrays of row counts L_1..L_k and a common last
\* dimension are returned as one array of shape (k, max L_i, last_dim) that
\* holds record i's rows in order in rows 0..L_i-1 of entry i and -1 in every
\* position of the rows after them, the records in the group's order.
C8_Padding ==
    /\ (Called /\ call.kind = "np") => Padded(call.out, call.data)
    /\ (Yielded /\ YieldedData[1].t = "ndarray") => Padded(Val(gen.out), YieldedData)

C8_Witness ==
    /\ Called /\ call.kind = "np"
    /\ call.rows = <<2, 5, 3>>
    /\ call.out.shape = <<3, 5, 2>>
    /\ call.out.v[1][2] = <<Cell(1, 2, 1), Cell(1, 2, 2)>>
    /\ call.out.v[1][3] = <<-1, -1>>
    /\ call.out.v[3][5] = <<-1, -1>>

(***************************************************************************)
(* Properties of the losses.                                               *)
(***************************************************************************)
\* C9: a focal loss with sparse labels fails at construction with a
\* configuration error, and yields no loss object, when num_class is missing,
\* is not an integer or is an integer below 1; construction succeeds with
\* sparse labels and a positive integer num_class, and with dense labels
\* whatever num_class is.
C9_FocalLossConstruction ==
    call.fn = "FocalLoss" =>
        IF call.sparse_label /\ (~IsInstanceInt(call.num_class) \/ call.num_class.v < 1)
        THEN call.raised = "ValueError" /\ IsNone(call.obj)
        ELSE call.raised = "" /\ ~IsNone(call.obj)

\* The loss the claim gives position p of a call.
Contribution(p) ==
    IF call.label[p] = call.self._ignore_label
    THEN Num(0)
    ELSE ApplyWeighting(
             Neg(IF call.self._from_logits
                 THEN Num(call.pred[p][call.label[p] + 1])
                 ELSE LogSoftmax(call.pred[p], call.label[p])),
             call.self._weight,
             IF IsNone(call.sample_weight) THEN None
             ELSE Some(Val(call.sample_weight)[p]))

\* C10: with sparse labels, a position whose label is the ignore label
\* contributes exactly 0 to the loss, whatever the prediction and the sample
\* weight there, and a position with a valid class label contributes the
\* negated log-probability picked at the label's index of the class axis.
C10_IgnoreLabel ==
    call.fn = "SoftmaxCrossEntropyLoss" =>
        /\ call.raised = ""
        /\ Len(call.out) = Len(call.label)
        /\ \A p \in 1..Len(call.label) :
             (call.label[p] >= 0 \/ call.label[p] = call.self._ignore_label)
                => call.out[p] = Contribution(p)

====
